---- MODULE Spec2Model ----
(***************************************************************************)
(* Cast pairing protocol of the receiver: register (phase 1),             *)
(* advertiseCode (phase 2) and getCastData (phase 3), as implemented in   *)
(* src/unnamed/part_001.                                                   *)
(*                                                                         *)
(* JavaScript values are modelled as strings; Undefined stands for the JS *)
(* value `undefined`, "" for the empty string.  Both are falsy.           *)
(***************************************************************************)
EXTENDS Integers, Sequences, FiniteSets, TLC

\* ------------------------------------------------------------------ bounds
MaxRequests == 3      \* inbound pair-request messages handled in one run
MaxRotations == 2     \* pairing code rotations in one run
MaxAttempts == 4      \* registerDevice calls issued in one run of register
MaxPolls == 3         \* getCastData calls in one run
MaxCycles == 2        \* passes over the collection in one run of the generator
MaxPages == 2         \* diff pages the server splits one listing into

\* ------------------------------------------------------------ JS values
Undefined == "undefined"

\* JavaScript truthiness of a `string | undefined` value.
Truthy(v) == v # Undefined /\ v # ""

\* Milliseconds register() waits before it retries.
RetryDelay == 10000

\* ------------------------------------------------------------ Advertiser
Senders == {"s1", "s2"}

namespace == "urn:x-cast:pair-request"

\* Pairing codes the backend hands out, oldest first.
CodeSeq == <<"code1", "code2", "code3", "code4">>

\* The `data` of an inbound message (type unknown in the source): null, a
\* non-object, or an object whose collectionID is missing, a number or a
\* string.
DataValues ==
    { [type |-> "null",   cidType |-> "undefined", cid |-> Undefined],
      [type |-> "string", cidType |-> "undefined", cid |-> Undefined],
      [type |-> "object", cidType |-> "undefined", cid |-> Undefined],
      [type |-> "object", cidType |-> "number",    cid |-> "7"],
      [type |-> "object", cidType |-> "string",    cid |-> ""],
      [type |-> "object", cidType |-> "string",    cid |-> "A"],
      [type |-> "object", cidType |-> "string",    cid |-> "B"] }

VARIABLES
    ctx,                \* CastReceiverContext: "idle", "started", "stopped"
    pairedCollectionID, \* closure variable of advertiseCode
    currentCode,        \* what the pairingCode callback returns right now
    rotations,          \* number of code rotations so far
    connected,          \* senders connected to the receiver
    sent,               \* messages passed to context.sendCustomMessage
    stops,              \* reasons of the context.stop() calls, in order
    requests            \* log of the handled requests (history)

advVars == <<ctx, pairedCollectionID, currentCode, rotations, connected,
             sent, stops, requests>>

\* ------------------------------------------------------------- Registrar
\* The keypairs crypto_box_keypair can produce.
Keypairs ==
    { [publicKey |-> "pk1", privateKey |-> "sk1"],
      [publicKey |-> "pk2", privateKey |-> "sk2"] }

NoKeypair == [publicKey |-> Undefined, privateKey |-> Undefined]

\* How long one registerDevice call can take, in ms.
CallDurations == {0, 2000}

\* What one castGateway.registerDevice call can do: throw, or resolve with
\* nothing, an empty string or a pairing code.
RegisterOutcomes == {"throw", Undefined, "", "code1", "code2"}

VARIABLES
    regPc,           \* position in register(): "init", "call", "awaiting",
                     \* "wait", "done", "threw"
    keypair,         \* local `keypair`
    regPairingCode,  \* local `pairingCode`
    regCalls,        \* registerDevice calls issued so far
    regInFlight,     \* registerDevice calls not yet settled
    regClock,        \* ms since register() was called
    regLog,          \* settled attempts: issue time, settle time, outcome
    registrations    \* values register() has returned

regVars == <<regPc, keypair, regPairingCode, regCalls, regInFlight, regClock,
             regLog, registrations>>

\* -------------------------------------------------------- CredentialPoller
\* The registrations the caller can hold: one per pairing cycle.
Registrations ==
    { [pairingCode |-> "code1", publicKeyB64 |-> [b64 |-> "pk1"],
       privateKeyB64 |-> [b64 |-> "sk1"]],
      [pairingCode |-> "code2", publicKeyB64 |-> [b64 |-> "pk2"],
       privateKeyB64 |-> [b64 |-> "sk2"]] }

PairingCodes == {r.pairingCode : r \in Registrations}

NoValue == [collectionKey |-> Undefined, castToken |-> Undefined]

\* The JSON values a client can send.
CastPayloads == { [collectionKey |-> "ck1", castToken |-> "tok1"] }

\* Plaintexts a client can seal: base64 of JSON of a payload, base64 of
\* something that is not JSON, or text that is not base64.
Plaintexts ==
    {[b64 |-> TRUE, json |-> TRUE, value |-> v] : v \in CastPayloads}
    \cup {[b64 |-> TRUE, json |-> FALSE, value |-> NoValue],
          [b64 |-> FALSE, json |-> FALSE, value |-> NoValue]}

NoPlaintext == [b64 |-> FALSE, json |-> FALSE, value |-> NoValue]

\* What the backend can hold for (and return for) a pairing code.
NoCastData == [kind |-> "undefined", to |-> Undefined, plain |-> NoPlaintext]

EmptyCastData == [kind |-> "empty", to |-> Undefined, plain |-> NoPlaintext]

SealedCastData ==
    {[kind |-> "sealed", to |-> k.publicKey, plain |-> p] :
        k \in Keypairs, p \in Plaintexts}

VARIABLES
    backend,     \* pairing code -> encrypted cast data held by museum
    pollPc,      \* position in getCastData: "idle", "awaiting"
    pollArg,     \* the registration passed to the running call
    pollReqs,    \* castGateway.getCastData requests issued so far
    pollLog      \* finished calls: argument, response, requests, result

pollVars == <<backend, pollPc, pollArg, pollReqs, pollLog>>


\* data && typeof data == "object" && typeof data["collectionID"] == "string"
\*     ? data["collectionID"] : undefined
extractCollectionID(data) ==
    IF data.type = "object" /\ data.cidType = "string"
    THEN data.cid
    ELSE Undefined

\* Faulty variants of the collection check: the comparison inverted, the
\* comparison dropped, the guard on an existing binding dropped.
isNewCollectionInverted(paired, collectionID) ==
    Truthy(paired) /\ paired = collectionID

isNewCollectionAnyBound(paired, collectionID) ==
    Truthy(paired)

isNewCollectionPlainCompare(paired, collectionID) ==
    paired # collectionID

\* pairedCollectionID && pairedCollectionID != collectionID
isNewCollection(paired, collectionID) ==
    Truthy(paired) /\ paired # collectionID

\* Faulty variant: the code read once, when advertiseCode was called.
pairingCodeCached == CodeSeq[1]

\* The pairingCode() callback invoked by the listener.
pairingCode == currentCode

\* Faulty variant: only `undefined` counts as a missing code.
isMissingCodeUndefinedOnly(code) == code = Undefined

\* !code
isMissingCode(code) == ~Truthy(code)

InitAdvertiser ==
    /\ ctx = "idle"
    /\ pairedCollectionID = Undefined
    /\ currentCode = CodeSeq[1]
    /\ rotations = 0
    /\ connected = {}
    /\ sent = <<>>
    /\ stops = <<>>
    /\ requests = <<>>

\* advertiseCode: register the listeners and context.start(options).
advertiseCode ==
    /\ ctx = "idle"
    /\ ctx' = "started"
    /\ pairedCollectionID' = Undefined
    /\ UNCHANGED <<currentCode, rotations, connected, sent, stops, requests>>

\* A sender connects over the Chromecast channel.
SenderConnected(s) ==
    /\ ctx = "started"
    /\ s \notin connected
    /\ connected' = connected \cup {s}
    /\ UNCHANGED <<ctx, pairedCollectionID, currentCode, rotations, sent,
                   stops, requests>>

\* The caller's pairing code expires / is refreshed: the callback now yields
\* nothing (refresh in progress), an empty string, or the next code.
RotateCode ==
    /\ ctx # "stopped"
    /\ rotations < MaxRotations
    /\ rotations' = rotations + 1
    /\ currentCode' \in {Undefined, "", CodeSeq[rotations + 2]}
    /\ UNCHANGED <<ctx, pairedCollectionID, connected, sent, stops, requests>>

\* Faulty variant: restart(...) for a new collection is not followed by
\* return, so the handler goes on to bind and to answer.
incomingMessageListenerNoReturn(senderId, data) ==
    /\ ctx = "started"
    /\ senderId \in connected
    /\ Len(requests) < MaxRequests
    /\ LET collectionID == extractCollectionID(data)
           stopped == isNewCollection(pairedCollectionID, collectionID)
                         \/ isMissingCode(pairingCode)
           outcome == IF isNewCollection(pairedCollectionID, collectionID)
                      THEN "new collection"
                      ELSE IF isMissingCode(pairingCode) THEN "no code"
                      ELSE "replied"
       IN /\ ctx' = IF stopped THEN "stopped" ELSE ctx
          /\ stops' = IF stopped THEN Append(stops, outcome) ELSE stops
          /\ pairedCollectionID' = collectionID
          /\ requests' = Append(requests,
                 [senderId |-> senderId, collectionID |-> collectionID,
                  pairedBefore |-> pairedCollectionID, code |-> currentCode,
                  outcome |-> outcome])
          /\ sent' = IF isMissingCode(pairingCode) THEN sent
                     ELSE Append(sent,
                             [namespace |-> namespace, to |-> senderId,
                              code |-> pairingCode,
                              request |-> Len(requests) + 1])
    /\ UNCHANGED <<currentCode, rotations, connected>>

\* incomingMessageListener({senderId, data})
incomingMessageListener(senderId, data) ==
    /\ ctx = "started"
    /\ senderId \in connected
    /\ Len(requests) < MaxRequests
    /\ LET collectionID == extractCollectionID(data)
           entry(code, outcome) ==
               [senderId |-> senderId, collectionID |-> collectionID,
                pairedBefore |-> pairedCollectionID, code |-> code,
                outcome |-> outcome]
       IN IF isNewCollection(pairedCollectionID, collectionID)
          THEN \* restart(...); return
               /\ ctx' = "stopped"
               /\ stops' = Append(stops, "new collection")
               /\ requests' =
                      Append(requests, entry(currentCode, "new collection"))
               /\ UNCHANGED <<pairedCollectionID, sent>>
          ELSE /\ pairedCollectionID' = collectionID
               /\ LET code == pairingCode
                  IN IF isMissingCode(code)
                     THEN \* restart(...); return
                          /\ ctx' = "stopped"
                          /\ stops' = Append(stops, "no code")
                          /\ requests' =
                                 Append(requests, entry(currentCode, "no code"))
                          /\ UNCHANGED sent
                     ELSE \* context.sendCustomMessage(namespace, senderId,
                          \*                           {code})
                          /\ sent' = Append(sent,
                                 [namespace |-> namespace, to |-> senderId,
                                  code |-> code, request |-> Len(requests) + 1])
                          /\ requests' =
                                 Append(requests, entry(currentCode, "replied"))
                          /\ UNCHANGED <<ctx, stops>>
    /\ UNCHANGED <<currentCode, rotations, connected>>

\* Faulty variant: the context is stopped only when a collection is bound.
senderDisconnectedListenerIfBound(s) ==
    /\ ctx = "started"
    /\ s \in connected
    /\ connected' = connected \ {s}
    /\ ctx' = IF Truthy(pairedCollectionID) THEN "stopped" ELSE ctx
    /\ stops' = IF Truthy(pairedCollectionID)
                THEN Append(stops, "sender disconnected")
                ELSE stops
    /\ UNCHANGED <<pairedCollectionID, currentCode, rotations, sent, requests>>

\* SENDER_DISCONNECTED listener: () => context.stop()
senderDisconnectedListener(s) ==
    /\ ctx = "started"
    /\ s \in connected
    /\ connected' = connected \ {s}
    /\ ctx' = "stopped"
    /\ stops' = Append(stops, "sender disconnected")
    /\ UNCHANGED <<pairedCollectionID, currentCode, rotations, sent, requests>>

NextAdvertiser ==
    \/ advertiseCode
    \/ \E s \in Senders : SenderConnected(s)
    \/ RotateCode
    \/ \E s \in Senders, d \in DataValues : incomingMessageListener(s, d)
    \/ \E s \in Senders : senderDisconnectedListener(s)

\* ------------------------------------------------------------- register
\* toB64 / fromB64 of libsodium: the base64 text of some bytes.
toB64(bytes) == [b64 |-> bytes]

fromB64(text) == text.b64

InitRegistrar ==
    /\ regPc = "init"
    /\ keypair = NoKeypair
    /\ regPairingCode = Undefined
    /\ regCalls = 0
    /\ regInFlight = 0
    /\ regClock = 0
    /\ regLog = <<>>
    /\ registrations = <<>>

\* const keypair = await generateKeyPair(); (and the two toB64 calls)
registerGenerateKeyPair ==
    /\ regPc = "init"
    /\ \/ /\ keypair' \in Keypairs
          /\ regPc' = "call"
       \/ \* libsodium fails to initialise: the await rejects
          /\ keypair' = keypair
          /\ regPc' = "threw"
    /\ UNCHANGED <<regPairingCode, regCalls, regInFlight, regClock, regLog,
                   registrations>>

\* castGateway.registerDevice(publicKeyB64) is issued.
registerCall ==
    /\ regPc = "call"
    /\ regCalls < MaxAttempts
    /\ regPc' = "awaiting"
    /\ regCalls' = regCalls + 1
    /\ regInFlight' = regInFlight + 1
    /\ regLog' = Append(regLog, [issued |-> regClock, settled |-> regClock,
                                 outcome |-> "pending",
                                 publicKeyB64 |-> toB64(keypair.publicKey)])
    /\ UNCHANGED <<keypair, regPairingCode, regClock, registrations>>

\* Faulty variant: any defined value, also "", ends the loop.
registerHasCodeAnyDefined(code) == code # Undefined

\* if (pairingCode) break;
registerHasCode(code) == Truthy(code)

\* The awaited call settles: try { pairingCode = await ... } catch { log },
\* then `if (pairingCode) break`.
registerSettle(outcome, duration) ==
    /\ regPc = "awaiting"
    /\ regInFlight' = regInFlight - 1
    /\ regClock' = regClock + duration
    /\ regLog' = [regLog EXCEPT ![Len(regLog)].settled = regClock + duration,
                                ![Len(regLog)].outcome = outcome]
    /\ regPairingCode' = IF outcome = "throw" THEN regPairingCode ELSE outcome
    /\ regPc' = IF registerHasCode(regPairingCode') THEN "return" ELSE "wait"
    /\ UNCHANGED <<keypair, regCalls, registrations>>

\* Faulty variant: the retry follows after one second.
registerWaitShort ==
    /\ regPc = "wait"
    /\ regClock' = regClock + 1000
    /\ regPc' = "call"
    /\ UNCHANGED <<keypair, regPairingCode, regCalls, regInFlight, regLog,
                   registrations>>

\* await wait(10000)
registerWait ==
    /\ regPc = "wait"
    /\ regClock' = regClock + RetryDelay
    /\ regPc' = "call"
    /\ UNCHANGED <<keypair, regPairingCode, regCalls, regInFlight, regLog,
                   registrations>>

\* return { pairingCode, publicKeyB64, privateKeyB64 }
registerReturn ==
    /\ regPc = "return"
    /\ registrations' = Append(registrations,
           [pairingCode |-> regPairingCode,
            publicKeyB64 |-> toB64(keypair.publicKey),
            privateKeyB64 |-> toB64(keypair.privateKey)])
    /\ regPc' = "done"
    /\ UNCHANGED <<keypair, regPairingCode, regCalls, regInFlight, regClock,
                   regLog>>

NextRegistrar ==
    \/ registerGenerateKeyPair
    \/ registerCall
    \/ \E o \in RegisterOutcomes, d \in CallDurations : registerSettle(o, d)
    \/ registerWait
    \/ registerReturn

\* ---------------------------------------------------------- getCastData
\* The private key that belongs to a public key.
privateKeyOf(publicKey) ==
    (CHOOSE k \in Keypairs : k.publicKey = publicKey).privateKey

\* Faulty variant: a box sealed for any keypair is opened.
boxSealOpenAnyKey(input, publicKeyB64, secretKeyB64) ==
    IF input.kind = "sealed"
    THEN [ok |-> TRUE, plain |-> input.plain]
    ELSE [ok |-> FALSE, plain |-> NoPlaintext]

\* boxSealOpen(input, publicKeyB64, secretKeyB64): opens a sealed box made for
\* that keypair, throws for any other input.
boxSealOpen(input, publicKeyB64, secretKeyB64) ==
    IF /\ input.kind = "sealed"
       /\ input.to = fromB64(publicKeyB64)
       /\ privateKeyOf(input.to) = fromB64(secretKeyB64)
    THEN [ok |-> TRUE, plain |-> input.plain]
    ELSE [ok |-> FALSE, plain |-> NoPlaintext]

\* Faulty variant: text that does not parse yields a value instead of an error.
jsonParseAtobLenient(text) == [ok |-> TRUE, value |-> text.value]

\* JSON.parse(atob(text)): throws when text is not base64 or not JSON.
jsonParseAtob(text) ==
    IF text.b64 /\ text.json
    THEN [ok |-> TRUE, value |-> text.value]
    ELSE [ok |-> FALSE, value |-> NoValue]

\* Faulty variant: the early return is missing.
hasNoCastDataNever(encryptedCastData) == FALSE

\* if (!encryptedCastData) return;
hasNoCastData(encryptedCastData) ==
    encryptedCastData.kind \in {"undefined", "empty"}

\* The part of getCastData after the awaited request: what the call resolves
\* or rejects with, and how many times it called boxSealOpen.
getCastDataResult(response, registration) ==
    IF response.threw
    THEN [outcome |-> "error", error |-> "request", value |-> NoValue,
          decrypts |-> 0]
    ELSE IF hasNoCastData(response.data)
    THEN [outcome |-> "undefined", error |-> "", value |-> NoValue,
          decrypts |-> 0]
    ELSE LET opened == boxSealOpen(response.data, registration.publicKeyB64,
                                   registration.privateKeyB64)
             parsed == jsonParseAtob(opened.plain)
         IN IF ~opened.ok
            THEN [outcome |-> "error", error |-> "decrypt", value |-> NoValue,
                  decrypts |-> 1]
            ELSE IF ~parsed.ok
            THEN [outcome |-> "error", error |-> "parse", value |-> NoValue,
                  decrypts |-> 1]
            ELSE [outcome |-> "value", error |-> "", value |-> parsed.value,
                  decrypts |-> 1]

InitPoller ==
    /\ backend = [c \in PairingCodes |-> NoCastData]
    /\ pollPc = "idle"
    /\ pollArg = CHOOSE r \in Registrations : TRUE
    /\ pollReqs = 0
    /\ pollLog = <<>>

\* A client that learnt the pairing code posts encrypted cast data for it.
clientSendsCastData(code, data) ==
    /\ backend[code] = NoCastData
    /\ backend' = [backend EXCEPT ![code] = data]
    /\ UNCHANGED <<pollPc, pollArg, pollReqs, pollLog>>

\* getCastData(registration) up to its first await: one request is issued.
getCastDataCall(registration) ==
    /\ pollPc = "idle"
    /\ Len(pollLog) < MaxPolls
    /\ pollPc' = "awaiting"
    /\ pollArg' = registration
    /\ pollReqs' = pollReqs + 1
    /\ UNCHANGED <<backend, pollLog>>

\* The request settles (with what museum holds, or with a failure) and the
\* call runs to its end.
getCastDataSettle(threw) ==
    /\ pollPc = "awaiting"
    /\ LET response == [threw |-> threw,
                        data |-> IF threw THEN NoCastData
                                 ELSE backend[pollArg.pairingCode]]
           result == getCastDataResult(response, pollArg)
       IN pollLog' = Append(pollLog,
              [registration |-> pollArg, response |-> response,
               requests |-> pollReqs, result |-> result])
    /\ pollPc' = "idle"
    /\ UNCHANGED <<backend, pollArg, pollReqs>>

NextPoller ==
    \/ \E c \in PairingCodes, d \in SealedCastData \cup {EmptyCastData} :
           clientSendsCastData(c, d)
    \/ \E r \in Registrations : getCastDataCall(r)
    \/ \E t \in BOOLEAN : getCastDataSettle(t)

\* ---------------------------------------------------------------- Streamer
\* FILE_TYPE of @/media/file-type.
FileTypes == {"image", "video", "livePhoto", "others"}

\* Number of milliseconds to keep the slide on the screen.
slideDuration == 10000


MiB == 1024 * 1024

\* nameAndExtension(title)[1] for the titles of the model.
extensionOf(title) ==
    CASE title = "a.jpg" -> "jpg"
      [] title = "b.HEIC" -> "HEIC"
      [] title = "c.mov" -> "mov"
      [] title = "d.cr2" -> "cr2"
      [] OTHER -> Undefined

\* isNonWebImageFileExtension(extension) of @/media/formats: the lower-cased
\* extension is one of the formats browsers cannot render.
isNonWebImageFileExtension(extension) ==
    extension \in {"heic", "HEIC", "cr2", "CR2", "nef", "NEF"}

\* What the server knows of the files of the collection: whether the file
\* key and metadata decrypt with the collection key, the decrypted metadata
\* and the public magic metadata, and what fetching and decoding the content
\* gives ("ok", "missing": no response data, "undetectable": no MIME type).
Catalogue ==
    [ f1 |-> [decrypts |-> TRUE, fileType |-> "image", title |-> "b.HEIC",
              editedName |-> "a.jpg", fileSize |-> 50 * MiB,
              content |-> "ok"],
      f2 |-> [decrypts |-> TRUE, fileType |-> "video", title |-> "c.mov",
              editedName |-> "", fileSize |-> 50 * MiB, content |-> "ok"],
      f3 |-> [decrypts |-> FALSE, fileType |-> "image", title |-> "a.jpg",
              editedName |-> "", fileSize |-> 50 * MiB, content |-> "ok"],
      f4 |-> [decrypts |-> TRUE, fileType |-> "livePhoto", title |-> "a.jpg",
              editedName |-> "", fileSize |-> 100 * MiB,
              content |-> "undetectable"],
      f5 |-> [decrypts |-> TRUE, fileType |-> "livePhoto", title |-> "noext",
              editedName |-> "", fileSize |-> 100 * MiB, content |-> "ok"] ]

\* The records (EncryptedEnteFile) the diff endpoint can return.
Records ==
    { [id |-> "f1", updationTime |-> 3, isDeleted |-> FALSE],
      [id |-> "f1", updationTime |-> 7, isDeleted |-> FALSE],
      [id |-> "f2", updationTime |-> 5, isDeleted |-> FALSE],
      [id |-> "f3", updationTime |-> 5, isDeleted |-> FALSE],
      [id |-> "f4", updationTime |-> 6, isDeleted |-> FALSE],
      [id |-> "f5", updationTime |-> 4, isDeleted |-> FALSE],
      [id |-> "f4", updationTime |-> 8, isDeleted |-> TRUE] }

\* The pages the server can answer a diff request with: no record, or one
\* record changed after sinceTime.
Pages(since) ==
    {<<>>} \cup {<<r>> : r \in {q \in Records : q.updationTime > since}}

\* How long fetching and decoding one file can take, in ms.
RenderDurations == {0, 4000}

NoFile == [id |-> Undefined, fileType |-> "others", title |-> "",
           fileSize |-> 0, content |-> "missing"]

NoPacing == [emission |-> 0, elapsed |-> 0, waited |-> 0]

VARIABLES
    genPc,             \* position in renderableImageURLs: "created", "fetch",
                       \* "listed", "file", "create", "retain", "pace",
                       \* "done", "threw"
    genError,          \* what the generator threw: "", "diff", "decrypt"
    cycle,             \* number of the current pass of while (true)
    sinceTime,         \* getEncryptedCollectionFiles.sinceTime
    files,             \* getEncryptedCollectionFiles.files
    diffLog,           \* diff requests of the running listing call (history)
    encryptedFiles,    \* the shuffled listing of the current pass
    idx,               \* position of the for loop in encryptedFiles
    file,              \* the decrypted file being processed
    haveEligibleFiles, \* local haveEligibleFiles
    urls,              \* local urls
    previousURLs,      \* local previousURLs
    liveURLs,          \* object URLs created and not revoked
    revokedURLs,       \* object URLs revoked
    urlCount,          \* object URLs created so far
    now,               \* Date.now(), ms since the generator was created
    lastYieldTime,     \* local lastYieldTime
    pendingWait,       \* ms the generator waits before the next yield
    emitted,           \* the URL pairs yielded in the current pass (history)
    emitCount,         \* number of URL pairs yielded so far (history)
    lastPacing,        \* elapsed time and wait of the latest yield (history)
    listingsGood       \* every listing so far had a file that renders (history)

strVars == <<genPc, genError, cycle, sinceTime, files, diffLog, encryptedFiles,
             idx, file, haveEligibleFiles, urls, previousURLs, liveURLs,
             revokedURLs, urlCount, now, lastYieldTime, pendingWait, emitted,
             emitCount, lastPacing, listingsGood>>

\* The files isFileEligibleForCast is applied to on its own.
EligibilityInputs ==
    [id : {"x"}, fileType : FileTypes,
     title : {"a.jpg", "b.HEIC", "c.mov", "d.cr2", "noext"},
     fileSize : {0, 50 * MiB, 100 * MiB - 1, 100 * MiB, 100 * MiB + 1,
                 150 * MiB},
     content : {"ok"}]

VARIABLES
    eligPc,      \* "idle", "called", "returned"
    eligFile,    \* the argument of the isFileEligibleForCast call
    eligResult   \* what the call returned

eligVars == <<eligPc, eligFile, eligResult>>

\* ----------------------------------------------------------- Cast data store
StorageKeys == {"collectionKey", "castToken", "other"}

\* What localStorage holds for a key: nothing, or a string.
Absent == [present |-> FALSE, text |-> ""]

\* The values a property of the payload can have.  Missing: the payload has
\* no such property.
Missing == [type |-> "missing", text |-> ""]

PropertyValues(key) ==
    IF key = "other"
    THEN {Missing, [type |-> "string", text |-> "x"]}
    ELSE {Missing, [type |-> "string", text |-> "s1"],
          [type |-> "string", text |-> "s2"],
          [type |-> "number", text |-> "5"],
          [type |-> "null", text |-> "null"]}

NoProperties == [k \in StorageKeys |-> Missing]

\* The payloads storeCastData can be called with: undefined, null, a string,
\* or an object.
StorePayloads ==
    {[type |-> t, properties |-> NoProperties] :
        t \in {"undefined", "null", "string"}}
    \cup {[type |-> "object", properties |-> f] :
            f \in {g \in [StorageKeys -> UNION {PropertyValues(k) :
                                                   k \in StorageKeys}] :
                      \A k \in StorageKeys : g[k] \in PropertyValues(k)}}

NoPayloadStored == [type |-> "none", properties |-> NoProperties]

NoRead == [status |-> "none", collectionKey |-> "", castToken |-> ""]

VARIABLES
    localStorage,   \* window.localStorage: key -> Absent or a string
    storeBefore,    \* localStorage before the latest storeCastData (history)
    lastStore,      \* payload and outcome of the latest storeCastData
    lastRead        \* outcome of the latest readCastData since then

storeVars == <<localStorage, storeBefore, lastStore, lastRead>>

vars == <<advVars, regVars, pollVars, strVars, eligVars, storeVars>>

\* decryptEnteFile(encryptedFile, collectionKey): the decrypted file, with
\* the edited name taking the place of the title; throws when the file key or
\* the metadata do not decrypt.
decryptEnteFile(encryptedFile) ==
    LET c == Catalogue[encryptedFile.id]
    IN IF ~c.decrypts
       THEN [ok |-> FALSE, file |-> NoFile]
       ELSE [ok |-> TRUE,
             file |-> [id |-> encryptedFile.id, fileType |-> c.fileType,
                       title |-> IF c.editedName # "" THEN c.editedName
                                 ELSE c.title,
                       fileSize |-> c.fileSize, content |-> c.content]]

isImageOrLivePhoto(f) == f.fileType = "image" \/ f.fileType = "livePhoto"

\* Faulty variant: a file of exactly 100 MiB is rejected.
isFileEligibleForCastBelowCeiling(f) ==
    IF ~isImageOrLivePhoto(f) THEN FALSE
    ELSE IF f.fileSize >= 100 * 1024 * 1024 THEN FALSE
    ELSE IF isNonWebImageFileExtension(extensionOf(f.title)) THEN FALSE
    ELSE TRUE

isFileEligibleForCast(f) ==
    IF ~isImageOrLivePhoto(f) THEN FALSE
    ELSE IF f.fileSize > 100 * 1024 * 1024 THEN FALSE
    ELSE IF isNonWebImageFileExtension(extensionOf(f.title)) THEN FALSE
    ELSE TRUE

\* renderableImageBlob(castToken, file) resolves (TRUE) or throws (FALSE).
renderableImageBlob(f) == isImageOrLivePhoto(f) /\ f.content = "ok"

\* The record can be decrypted, passes the filter and renders.
Renders(r) ==
    LET d == decryptEnteFile(r)
    IN d.ok /\ isFileEligibleForCast(d.file) /\ renderableImageBlob(d.file)

\* diff.reduce((max, file) => Math.max(max, file.updationTime), sinceTime)
RECURSIVE maxUpdationTime(_, _)
maxUpdationTime(diff, max) ==
    IF diff = <<>> THEN max
    ELSE maxUpdationTime(Tail(diff),
                         IF Head(diff).updationTime > max
                         THEN Head(diff).updationTime ELSE max)

\* diff.filter((file) => !file.isDeleted)
nonDeleted(diff) == SelectSeq(diff, LAMBDA r : ~r.isDeleted)

\* shuffled(files): the orderings of files.
Shuffles(fs) ==
    {[i \in 1..Len(fs) |-> fs[p[i]]] :
        p \in {q \in [1..Len(fs) -> 1..Len(fs)] :
                  \A i, j \in 1..Len(fs) : i # j => q[i] # q[j]}}

InitStreamer ==
    /\ genPc = "created"
    /\ genError = ""
    /\ cycle = 0
    /\ sinceTime = 0
    /\ files = <<>>
    /\ diffLog = <<>>
    /\ encryptedFiles = <<>>
    /\ idx = 1
    /\ file = NoFile
    /\ haveEligibleFiles = FALSE
    /\ urls = <<>>
    /\ previousURLs = <<>>
    /\ liveURLs = {}
    /\ revokedURLs = {}
    /\ urlCount = 0
    /\ now = 0
    /\ lastYieldTime = 0
    /\ pendingWait = 0
    /\ emitted = <<>>
    /\ emitCount = 0
    /\ lastPacing = NoPacing
    /\ listingsGood = TRUE

\* Faulty variant: lastYieldTime is not regressed before the first slide.
renderableImageURLsNoRegress ==
    /\ genPc = "created"
    /\ lastYieldTime' = now
    /\ genPc' = "fetch"
    /\ cycle' = 1
    /\ sinceTime' = 0
    /\ files' = <<>>
    /\ diffLog' = <<>>
    /\ UNCHANGED <<genError, encryptedFiles, idx, file, haveEligibleFiles,
                   urls, previousURLs, liveURLs, revokedURLs, urlCount, now,
                   pendingWait, emitted, emitCount, lastPacing, listingsGood>>

\* The generator runs up to its first await: lastYieldTime is set and
\* regressed, and the first pass starts.
renderableImageURLs ==
    /\ genPc = "created"
    /\ lastYieldTime' = now - (slideDuration - 2500)
    /\ genPc' = "fetch"
    /\ cycle' = 1
    /\ sinceTime' = 0
    /\ files' = <<>>
    /\ diffLog' = <<>>
    /\ UNCHANGED <<genError, encryptedFiles, idx, file, haveEligibleFiles,
                   urls, previousURLs, liveURLs, revokedURLs, urlCount, now,
                   pendingWait, emitted, emitCount, lastPacing, listingsGood>>

\* One iteration of the do-while of getEncryptedCollectionFiles whose request
\* succeeds; after the last page the function returns files.
diffRequestSucceeds(diff, hasMore) ==
    /\ genPc = "fetch"
    /\ hasMore => Len(diffLog) + 1 < MaxPages
    /\ diffLog' = Append(diffLog, [sinceTime |-> sinceTime, ok |-> TRUE,
                                   diff |-> diff, hasMore |-> hasMore])
    /\ files' = files \o nonDeleted(diff)
    /\ sinceTime' = maxUpdationTime(diff, sinceTime)
    /\ genPc' = IF hasMore THEN "fetch" ELSE "listed"
    /\ UNCHANGED <<genError, cycle, encryptedFiles, idx, file,
                   haveEligibleFiles, urls, previousURLs, liveURLs,
                   revokedURLs, urlCount, now, lastYieldTime, pendingWait,
                   emitted, emitCount, lastPacing, listingsGood>>

\* const encryptedFiles = shuffled(await getEncryptedCollectionFiles(...));
\* let haveEligibleFiles = false; and the for loop starts.  The locals of
\* getEncryptedCollectionFiles are gone.
shuffleListing ==
    /\ genPc = "listed"
    /\ encryptedFiles' \in Shuffles(files)
    /\ idx' = 1
    /\ haveEligibleFiles' = FALSE
    /\ genPc' = "file"
    /\ listingsGood' =
           (listingsGood /\ \E i \in 1..Len(files) : Renders(files[i]))
    /\ sinceTime' = 0
    /\ files' = <<>>
    /\ diffLog' = <<>>
    /\ UNCHANGED <<genError, cycle, file, urls, previousURLs, liveURLs,
                   revokedURLs, urlCount, now, lastYieldTime, pendingWait,
                   emitted, emitCount, lastPacing>>

\* Faulty variant: a failed diff request is tried again.
diffRequestFailsRetried ==
    /\ genPc = "fetch"
    /\ diffLog' = Append(diffLog, [sinceTime |-> sinceTime, ok |-> FALSE,
                                   diff |-> <<>>, hasMore |-> FALSE])
    /\ UNCHANGED <<genPc, genError, cycle, sinceTime, files, encryptedFiles,
                   idx, file, haveEligibleFiles, urls, previousURLs, liveURLs,
                   revokedURLs, urlCount, now, lastYieldTime, pendingWait,
                   emitted, emitCount, lastPacing, listingsGood>>

\* The diff request throws: nothing catches it, the generator throws.
diffRequestFails ==
    /\ genPc = "fetch"
    /\ diffLog' = Append(diffLog, [sinceTime |-> sinceTime, ok |-> FALSE,
                                   diff |-> <<>>, hasMore |-> FALSE])
    /\ genPc' = "threw"
    /\ genError' = "diff"
    /\ UNCHANGED <<cycle, sinceTime, files, encryptedFiles, idx, file,
                   haveEligibleFiles, urls, previousURLs, liveURLs,
                   revokedURLs, urlCount, now, lastYieldTime, pendingWait,
                   emitted, emitCount, lastPacing, listingsGood>>

\* Faulty variant: the eligibility filter is missing.
processFileUnfiltered ==
    /\ genPc = "file"
    /\ idx <= Len(encryptedFiles)
    /\ LET d == decryptEnteFile(encryptedFiles[idx])
       IN IF ~d.ok
          THEN /\ genPc' = "threw"
               /\ genError' = "decrypt"
               /\ UNCHANGED <<idx, file>>
          ELSE /\ genPc' = "create"
               /\ file' = d.file
               /\ UNCHANGED <<genError, idx>>
    /\ UNCHANGED <<cycle, sinceTime, files, diffLog, encryptedFiles,
                   haveEligibleFiles, urls, previousURLs, liveURLs,
                   revokedURLs, urlCount, now, lastYieldTime, pendingWait,
                   emitted, emitCount, lastPacing, listingsGood>>

\* The head of the for loop: decryptEnteFile (outside the try) and the
\* eligibility filter.
processFile ==
    /\ genPc = "file"
    /\ idx <= Len(encryptedFiles)
    /\ LET d == decryptEnteFile(encryptedFiles[idx])
       IN IF ~d.ok
          THEN /\ genPc' = "threw"
               /\ genError' = "decrypt"
               /\ UNCHANGED <<idx, file>>
          ELSE IF ~isFileEligibleForCast(d.file)
          THEN /\ idx' = idx + 1
               /\ UNCHANGED <<genPc, genError, file>>
          ELSE /\ genPc' = "create"
               /\ file' = d.file
               /\ UNCHANGED <<genError, idx>>
    /\ UNCHANGED <<cycle, sinceTime, files, diffLog, encryptedFiles,
                   haveEligibleFiles, urls, previousURLs, liveURLs,
                   revokedURLs, urlCount, now, lastYieldTime, pendingWait,
                   emitted, emitCount, lastPacing, listingsGood>>

\* Faulty variant: haveEligibleFiles is set before the URL is created, so
\* also when its creation fails.
createRenderableURLFlagFirst(duration) ==
    /\ genPc = "create"
    /\ now' = now + duration
    /\ haveEligibleFiles' = TRUE
    /\ IF renderableImageBlob(file)
       THEN /\ urlCount' = urlCount + 1
            /\ liveURLs' = liveURLs \cup {urlCount + 1}
            /\ urls' = Append(urls, urlCount + 1)
            /\ genPc' = "retain"
            /\ UNCHANGED idx
       ELSE /\ idx' = idx + 1
            /\ genPc' = "file"
            /\ UNCHANGED <<urlCount, liveURLs, urls>>
    /\ UNCHANGED <<genError, cycle, sinceTime, files, diffLog, encryptedFiles,
                   file, previousURLs, revokedURLs, lastYieldTime, pendingWait,
                   emitted, emitCount, lastPacing, listingsGood>>

\* try { urls.push(await createRenderableURL(castToken, file));
\*       haveEligibleFiles = true } catch { continue }
createRenderableURL(duration) ==
    /\ genPc = "create"
    /\ now' = now + duration
    /\ IF renderableImageBlob(file)
       THEN /\ urlCount' = urlCount + 1
            /\ liveURLs' = liveURLs \cup {urlCount + 1}
            /\ urls' = Append(urls, urlCount + 1)
            /\ haveEligibleFiles' = TRUE
            /\ genPc' = "retain"
            /\ UNCHANGED idx
       ELSE /\ idx' = idx + 1
            /\ genPc' = "file"
            /\ UNCHANGED <<urlCount, liveURLs, urls, haveEligibleFiles>>
    /\ UNCHANGED <<genError, cycle, sinceTime, files, diffLog, encryptedFiles,
                   file, previousURLs, revokedURLs, lastYieldTime, pendingWait,
                   emitted, emitCount, lastPacing, listingsGood>>

\* Faulty variant: the URL on screen is revoked too.
mustRevokeShown(previous) == Len(previous) > 0

\* Faulty variant: one more URL is kept before the oldest is revoked.
mustRevokeLate(previous) == Len(previous) > 2

\* if (previousURLs.length > 1)
mustRevoke(previous) == Len(previous) > 1

\* if (elapsedTime > 0 && elapsedTime < slideDuration): the ms to wait.
waitFor(elapsedTime) ==
    IF elapsedTime > 0 /\ elapsedTime < slideDuration
    THEN slideDuration - elapsedTime
    ELSE 0

\* The synchronous code between the creation of the URL and the wait: the
\* oldest URL is revoked, the new one moves from urls to previousURLs, and
\* the time to wait is computed.
retainAndPace ==
    /\ genPc = "retain"
    /\ LET revoke == mustRevoke(previousURLs)
           kept == IF revoke THEN Tail(previousURLs) ELSE previousURLs
       IN /\ revokedURLs' = IF revoke
                            THEN revokedURLs \cup {Head(previousURLs)}
                            ELSE revokedURLs
          /\ liveURLs' = IF revoke
                         THEN liveURLs \ {Head(previousURLs)}
                         ELSE liveURLs
          /\ previousURLs' = Append(kept, Head(urls))
    /\ urls' = Tail(urls)
    /\ pendingWait' = waitFor(now - lastYieldTime)
    /\ lastPacing' = [emission |-> emitCount + 1,
                      elapsed |-> now - lastYieldTime,
                      waited |-> pendingWait']
    /\ genPc' = "pace"
    /\ UNCHANGED <<genError, cycle, sinceTime, files, diffLog, encryptedFiles,
                   idx, file, haveEligibleFiles, urlCount, now, lastYieldTime,
                   emitted, emitCount, listingsGood>>

\* await wait(...), lastYieldTime = Date.now() and yield urlPair; the
\* consumer takes the pair and asks for the next one.
yieldPair ==
    /\ genPc = "pace"
    /\ now' = now + pendingWait
    /\ lastYieldTime' = now'
    /\ pendingWait' = 0
    /\ emitted' = Append(emitted,
           [url |-> previousURLs[Len(previousURLs)], nextURL |-> "",
            id |-> file.id])
    /\ emitCount' = emitCount + 1
    /\ idx' = idx + 1
    /\ genPc' = "file"
    /\ UNCHANGED <<genError, cycle, sinceTime, files, diffLog, encryptedFiles,
                   file, haveEligibleFiles, urls, previousURLs, liveURLs,
                   revokedURLs, urlCount, lastPacing, listingsGood>>

\* Faulty variant: the generator never returns.
mustReturnNever(have) == FALSE

\* if (!haveEligibleFiles) return;
mustReturn(have) == ~have

\* The for loop is over: return, or start the next pass of while (true).
endOfPass ==
    /\ genPc = "file"
    /\ idx > Len(encryptedFiles)
    /\ IF mustReturn(haveEligibleFiles)
       THEN /\ genPc' = "done"
            /\ UNCHANGED <<cycle, emitted>>
       ELSE /\ cycle < MaxCycles
            /\ genPc' = "fetch"
            /\ cycle' = cycle + 1
            /\ emitted' = <<>>
    /\ UNCHANGED <<genError, sinceTime, files, diffLog, encryptedFiles, idx,
                   file, haveEligibleFiles, urls, previousURLs, liveURLs,
                   revokedURLs, urlCount, now, lastYieldTime, pendingWait,
                   emitCount, lastPacing, listingsGood>>

NextStreamer ==
    \/ renderableImageURLs
    \/ \E h \in BOOLEAN : \E d \in Pages(sinceTime) : diffRequestSucceeds(d, h)
    \/ diffRequestFails
    \/ shuffleListing
    \/ processFile
    \/ \E d \in RenderDurations : createRenderableURL(d)
    \/ retainAndPace
    \/ yieldPair
    \/ endOfPass

\* ------------------------------------------- isFileEligibleForCast alone
InitEligibility ==
    /\ eligPc = "idle"
    /\ eligFile = NoFile
    /\ eligResult = FALSE

eligibilityCall(f) ==
    /\ eligPc # "called"
    /\ eligPc' = "called"
    /\ eligFile' = f
    /\ UNCHANGED eligResult

eligibilityReturn ==
    /\ eligPc = "called"
    /\ eligPc' = "returned"
    /\ eligResult' = isFileEligibleForCast(eligFile)
    /\ UNCHANGED eligFile

NextEligibility ==
    \/ \E f \in EligibilityInputs : eligibilityCall(f)
    \/ eligibilityReturn

\* -------------------------------------------- storeCastData, readCastData
\* localStorage.setItem(key, value): the value is converted to a string.
setItem(storage, key, value) ==
    [storage EXCEPT ![key] = [present |-> TRUE, text |-> value.text]]

\* ensureString(localStorage.getItem(key)): getItem gives null for a key
\* that is not there, and ensureString throws for what is not a string.
ensureString(item) == item.present

\* for (const key in payload) localStorage.setItem(key, payload[key])
RECURSIVE setItems(_, _, _)
setItems(storage, properties, keys) ==
    IF keys = {} THEN storage
    ELSE LET k == CHOOSE x \in keys : TRUE
         IN setItems(setItem(storage, k, properties[k]), properties,
                     keys \ {k})

\* if (!payload || typeof payload != "object") throw
isUnexpectedCastData(payload) == payload.type # "object"

InitStore ==
    /\ localStorage = [k \in StorageKeys |-> Absent]
    /\ storeBefore = [k \in StorageKeys |-> Absent]
    /\ lastStore = [payload |-> NoPayloadStored, threw |-> FALSE]
    /\ lastRead = NoRead

storeCastData(payload) ==
    /\ storeBefore' = localStorage
    /\ lastRead' = NoRead
    /\ IF isUnexpectedCastData(payload)
       THEN /\ lastStore' = [payload |-> payload, threw |-> TRUE]
            /\ UNCHANGED localStorage
       ELSE /\ lastStore' = [payload |-> payload, threw |-> FALSE]
            /\ localStorage' =
                   setItems(localStorage, payload.properties,
                            {k \in StorageKeys :
                                payload.properties[k] # Missing})

readCastData ==
    /\ lastRead' =
           IF /\ ensureString(localStorage["collectionKey"])
              /\ ensureString(localStorage["castToken"])
           THEN [status |-> "ok",
                 collectionKey |-> localStorage["collectionKey"].text,
                 castToken |-> localStorage["castToken"].text]
           ELSE [status |-> "threw", collectionKey |-> "", castToken |-> ""]
    /\ UNCHANGED <<localStorage, storeBefore, lastStore>>

NextStore ==
    \/ \E p \in StorePayloads : storeCastData(p)
    \/ readCastData

Init ==
    /\ InitAdvertiser
    /\ InitRegistrar
    /\ InitPoller
    /\ InitStreamer
    /\ InitEligibility
    /\ InitStore

Next ==
    \/ NextAdvertiser
       /\ UNCHANGED <<regVars, pollVars, strVars, eligVars, storeVars>>
    \/ NextRegistrar
       /\ UNCHANGED <<advVars, pollVars, strVars, eligVars, storeVars>>
    \/ NextPoller
       /\ UNCHANGED <<advVars, regVars, strVars, eligVars, storeVars>>
    \/ NextStreamer
       /\ UNCHANGED <<advVars, regVars, pollVars, eligVars, storeVars>>
    \/ NextEligibility
       /\ UNCHANGED <<advVars, regVars, pollVars, strVars, storeVars>>
    \/ NextStore
       /\ UNCHANGED <<advVars, regVars, pollVars, strVars, eligVars>>

Spec == Init /\ [][Next]_vars

SpecAdvertiser ==
    Init /\ [][NextAdvertiser
             /\ UNCHANGED <<regVars, pollVars, strVars, eligVars, storeVars>>]_vars

SpecRegistrar ==
    Init /\ [][NextRegistrar
             /\ UNCHANGED <<advVars, pollVars, strVars, eligVars, storeVars>>]_vars

SpecPoller ==
    Init /\ [][NextPoller
             /\ UNCHANGED <<advVars, regVars, strVars, eligVars, storeVars>>]_vars

SpecStreamer ==
    Init /\ [][NextStreamer
             /\ UNCHANGED <<advVars, regVars, pollVars, eligVars, storeVars>>]_vars

SpecEligibility ==
    Init /\ [][NextEligibility
             /\ UNCHANGED <<advVars, regVars, pollVars, strVars, storeVars>>]_vars

SpecStore ==
    Init /\ [][NextStore
             /\ UNCHANGED <<advVars, regVars, pollVars, strVars, eligVars>>]_vars

\* ======================================================== Advertiser claims
\* The step just taken handled an inbound request (it is the last of the log).
Handled == Len(requests') = Len(requests) + 1

LastRequest == requests[Len(requests)]

\* The request the step just taken handled.
NewRequest == requests'[Len(requests')]

\* Request j of the log passed the collection check.
PassedCheckIn(reqs, j) == reqs[j].outcome # "new collection"

PassedCheck(j) == PassedCheckIn(requests, j)

\* The messages sent in answer to request j of the log.
RepliesIn(msgs, j) == {k \in 1..Len(msgs) : msgs[k].request = j}

RepliesTo(j) == RepliesIn(sent, j)

SameCollectionID ==
    \A i, j \in 1..Len(requests) :
        requests[i].collectionID = requests[j].collectionID

\* C1: once a request with a non-empty collectionID A has passed the
\* collection check, handling a later request with a different non-empty
\* collectionID B calls context.stop and sends nothing.
C1_MismatchTearsDown ==
    [][ ( /\ Handled
          /\ Truthy(NewRequest.collectionID)
          /\ \E i \in 1..Len(requests) :
                /\ PassedCheck(i)
                /\ Truthy(requests[i].collectionID)
                /\ requests[i].collectionID # NewRequest.collectionID )
        => ( /\ ctx' = "stopped"
             /\ Len(stops') = Len(stops) + 1
             /\ sent' = sent
             /\ RepliesIn(sent', Len(requests')) = {} ) ]_vars

C1_Witness ==
    /\ Len(requests) >= 2
    /\ requests[1].outcome = "replied"
    /\ requests[1].collectionID = "A"
    /\ LastRequest.collectionID = "B"
    /\ LastRequest.outcome = "new collection"
    /\ ctx = "stopped"

\* C2 as stated: while all requests carry the same collectionID, the handler
\* answers every one of them and never calls context.stop.
C2_SameCollectionNeverStops ==
    SameCollectionID =>
        /\ \A j \in 1..Len(requests) : requests[j].outcome = "replied"
        /\ \A k \in 1..Len(stops) : stops[k] = "sender disconnected"

\* C2 amended: while all requests carry the same collectionID, the handler
\* never tears the session down for a collection mismatch; it answers exactly
\* the requests at which the code provider yields a code, and calls
\* context.stop only for a request at which it yields none.
C2_SameCollectionStopsOnlyWithoutCode ==
    SameCollectionID =>
        /\ \A j \in 1..Len(requests) :
              /\ PassedCheck(j)
              /\ Truthy(requests[j].code) <=> requests[j].outcome = "replied"
              /\ Truthy(requests[j].code) <=> RepliesTo(j) # {}
        /\ \A k \in 1..Len(stops) : stops[k] # "new collection"

C2_Witness ==
    /\ Len(requests) = MaxRequests
    /\ SameCollectionID
    /\ requests[1].collectionID = "A"
    /\ requests[1].code # requests[2].code
    /\ requests[2].outcome = "replied"
    /\ LastRequest.outcome = "no code"

\* Request j is the first one with a collectionID, after requests without.
AbsentToPresentIn(reqs, j) ==
    /\ j > 1
    /\ \A i \in 1..(j - 1) : reqs[i].collectionID = Undefined
    /\ reqs[j].collectionID # Undefined

AbsentToPresent(j) == AbsentToPresentIn(requests, j)

\* C3 as stated: a request that carries a collectionID after requests that
\* carried none is treated as a mismatch: the session is torn down.
C3_AbsentToPresentTearsDown ==
    \A j \in 1..Len(requests) :
        AbsentToPresent(j) =>
            /\ requests[j].outcome = "new collection"
            /\ RepliesTo(j) = {}

\* C3 amended: a request that carries a collectionID after requests that
\* carried none passes the collection check; the session gets bound to that
\* collectionID and the request is answered when there is a pairing code.
C3_AbsentToPresentBinds ==
    [][ (Handled /\ AbsentToPresentIn(requests', Len(requests')))
        => ( /\ pairedCollectionID' = NewRequest.collectionID
             /\ NewRequest.outcome # "new collection"
             /\ \A k \in 1..Len(stops') : stops'[k] # "new collection"
             /\ Truthy(currentCode) =>
                    /\ ctx' = "started"
                    /\ Len(sent') = Len(sent) + 1
                    /\ sent'[Len(sent')].to = NewRequest.senderId ) ]_vars

C3_Witness ==
    /\ Len(requests) >= 2
    /\ AbsentToPresent(Len(requests))
    /\ LastRequest.collectionID = "A"
    /\ LastRequest.outcome = "replied"
    /\ pairedCollectionID = "A"
    /\ ctx = "started"

\* C4: a request that passed the collection check while the code provider
\* yields no code stops the context and sends nothing; no message ever
\* carries an empty or undefined code.
C4_NoCodeTearsDown ==
    [][ /\ ( /\ Handled
             /\ PassedCheckIn(requests', Len(requests) + 1)
             /\ ~Truthy(currentCode) )
           => ( /\ ctx' = "stopped"
                /\ Len(stops') = Len(stops) + 1
                /\ sent' = sent )
        /\ \A k \in 1..Len(sent') : Truthy(sent'[k].code) ]_vars

C4_Witness ==
    /\ Len(requests) >= 2
    /\ LastRequest.outcome = "no code"
    /\ LastRequest.code = ""
    /\ requests[1].outcome = "replied"
    /\ ctx = "stopped"

\* Position of a pairing code in the order the codes were issued.
CodeIndex(code) == CHOOSE n \in 1..Len(CodeSeq) : CodeSeq[n] = code

\* C5: every request that is accepted gets exactly one reply, sent to its
\* senderId with the code the provider yields when the request is handled; a
\* request that is not accepted gets none, and no reply carries a code older
\* than the code of an earlier reply.
C5_ReplyCarriesCurrentCode ==
    [][ /\ \A j \in 1..Len(requests') :
              IF requests'[j].outcome = "replied"
              THEN /\ Cardinality(RepliesIn(sent', j)) = 1
                   /\ \A k \in RepliesIn(sent', j) :
                         /\ sent'[k].to = requests'[j].senderId
                         /\ sent'[k].code = requests'[j].code
                         /\ sent'[k].namespace = "urn:x-cast:pair-request"
              ELSE RepliesIn(sent', j) = {}
        /\ Len(sent') > Len(sent) =>
              /\ Handled
              /\ Len(sent') = Len(sent) + 1
              /\ sent'[Len(sent')].code = currentCode
        /\ \A k1, k2 \in 1..Len(sent') :
              k1 < k2 => CodeIndex(sent'[k1].code) <= CodeIndex(sent'[k2].code)
      ]_vars

C5_Witness ==
    /\ Len(sent) >= 2
    /\ sent[1].code = "code1"
    /\ sent[1].to = "s1"
    /\ sent[2].code = "code3"
    /\ sent[2].to = "s2"
    /\ rotations = 2

\* C6: when a sender disconnects while the context is listening, whatever
\* the binding and whether or not a code was sent, context.stop is called.
C6_DisconnectTearsDown ==
    [][ (ctx = "started" /\ connected' # connected
            /\ connected' \subseteq connected)
        => ( /\ ctx' = "stopped"
             /\ stops' = Append(stops, "sender disconnected") ) ]_vars

C6_Witness ==
    /\ ctx = "stopped"
    /\ stops = <<"sender disconnected">>
    /\ pairedCollectionID = "A"
    /\ Len(sent) >= 1
    /\ connected # {}

\* ========================================================= Registrar claims
RegistrationFailed(outcome) == outcome \in {"throw", Undefined, ""}

LastAttempt == regLog[Len(regLog)]

\* The attempts of the log that failed.
FailedAttempts == {i \in 1..Len(regLog) : RegistrationFailed(regLog[i].outcome)}

\* C7: after an attempt that throws or yields no pairing code register waits
\* 10 s and calls again; it does not throw or return because of a failed
\* attempt, and what it returns is a non-empty pairing code with the keypair
\* it generated at its start.
C7_RegisterNeverGivesUp ==
    [][ /\ ( /\ regPc = "awaiting"
             /\ regPc' # "awaiting"
             /\ RegistrationFailed(regLog'[Len(regLog')].outcome) )
           => regPc' = "wait"
        /\ regPc = "wait" => (regPc' = "call" /\ regClock' = regClock + 10000)
        /\ regPc' \in {"return", "done"} =>
              /\ Truthy(regPairingCode')
              /\ regPairingCode' = regLog'[Len(regLog')].outcome
        /\ regPc' = "done" =>
              registrations' =
                  << [pairingCode |-> regPairingCode',
                      publicKeyB64 |-> [b64 |-> keypair'.publicKey],
                      privateKeyB64 |-> [b64 |-> keypair'.privateKey]] >>
        /\ regPc' # "done" => registrations' = <<>>
        /\ regPc # "init" => (keypair' = keypair /\ keypair \in Keypairs)
        /\ regPc' = "threw" => regCalls' = 0 ]_vars

C7_Witness ==
    /\ regPc = "done"
    /\ regCalls = MaxAttempts
    /\ regLog[1].outcome = Undefined
    /\ regLog[2].outcome = "throw"
    /\ registrations[1].pairingCode = "code2"
    /\ registrations[1].publicKeyB64 = [b64 |-> "pk2"]

\* C8: when N attempts fail and the next one succeeds, register has made
\* N + 1 calls, one at a time, each retry 10 s after the failure before it
\* (at least N x 10 s in all), and has returned one Registration.
C8_RetryCountAndSpacing ==
    /\ regInFlight <= 1
    /\ regInFlight = 1 <=> regPc = "awaiting"
    /\ regPc = "done" =>
          LET N == Cardinality(FailedAttempts)
          IN /\ regCalls = N + 1
             /\ Len(regLog) = N + 1
             /\ FailedAttempts = 1..N
             /\ Len(registrations) = 1
             /\ regClock >= N * 10000
             /\ \A i \in 1..N :
                   regLog[i + 1].issued = regLog[i].settled + 10000

C8_Witness ==
    /\ regPc = "done"
    /\ regCalls = 3
    /\ regLog[1].outcome = "throw"
    /\ regLog[2].outcome = ""
    /\ regLog[3].outcome = "code1"
    /\ regClock = 22000

\* ============================================================ Poller claims
\* The response carried no payload.
NoPayload(e) ==
    ~e.response.threw /\ e.response.data.kind \in {"undefined", "empty"}

\* The response carried a payload sealed for the registration of the call.
SealedForCaller(e) ==
    /\ ~e.response.threw
    /\ e.response.data.kind = "sealed"
    /\ e.response.data.to = e.registration.publicKeyB64.b64

WellFormed(e) == e.response.data.plain.b64 /\ e.response.data.plain.json

\* C9: every call issues one request; a call whose response carries no
\* payload resolves with undefined, without an error and without a
\* decryption; a call whose response carries a well-formed payload sealed
\* for the caller resolves with the decrypted payload.
C9_OneRequestAndNoData ==
    /\ pollReqs = Len(pollLog) + (IF pollPc = "awaiting" THEN 1 ELSE 0)
    /\ \A i \in 1..Len(pollLog) :
          LET e == pollLog[i]
          IN /\ e.requests = i
             /\ NoPayload(e) =>
                   /\ e.result.outcome = "undefined"
                   /\ e.result.error = ""
                   /\ e.result.decrypts = 0
             /\ (SealedForCaller(e) /\ WellFormed(e)) =>
                   /\ e.result.outcome = "value"
                   /\ e.result.value = e.response.data.plain.value
                   /\ e.result.value \in CastPayloads

C9_Witness ==
    /\ Len(pollLog) = 3
    /\ pollLog[1].result.outcome = "undefined"
    /\ pollLog[2].result.outcome = "undefined"
    /\ pollLog[2].response.data.kind = "undefined"
    /\ pollLog[3].result.outcome = "value"
    /\ pollLog[1].registration = pollLog[3].registration

\* C10: a call whose response carries a payload that does not decrypt with
\* the private key, or whose plaintext does not parse, rejects with an error:
\* it resolves neither with undefined nor with a value, after one request.
C10_MalformedPayloadIsError ==
    /\ pollReqs <= Len(pollLog) + 1
    /\ \A i \in 1..Len(pollLog) :
          LET e == pollLog[i]
          IN ( /\ ~e.response.threw
               /\ e.response.data.kind = "sealed"
               /\ ~(SealedForCaller(e) /\ WellFormed(e)) )
             => /\ e.result.outcome = "error"
                /\ e.result.error =
                       IF SealedForCaller(e) THEN "parse" ELSE "decrypt"
                /\ e.result.value = NoValue
                /\ e.requests = i

C10_Witness ==
    /\ Len(pollLog) >= 2
    /\ pollLog[1].result.error = "decrypt"
    /\ pollLog[2].result.error = "parse"
    /\ ~pollLog[2].response.data.plain.b64

\* ========================================================== Streamer claims
\* The elements of a sequence.
Range(seq) == {seq[i] : i \in 1..Len(seq)}

\* C11 as stated: at every instant at most 2 object URLs are created and not
\* revoked, and no revoked URL is in the retention queue.
C11_AtMostTwoLive ==
    /\ Cardinality(liveURLs) <= 2
    /\ Range(previousURLs) \cap revokedURLs = {}

\* C11 amended: at most 3 object URLs are created and not revoked at any
\* instant, and at most 2 except between the creation of a URL and the
\* revocation that precedes its emission; the queue holds at most 2 URLs and
\* never a revoked one.
C11_AtMostTwoLiveWhenEmitting ==
    /\ Cardinality(liveURLs) <= 3
    /\ genPc # "retain" => Cardinality(liveURLs) <= 2
    /\ Len(previousURLs) <= 2
    /\ liveURLs = Range(previousURLs) \cup Range(urls)
    /\ Range(previousURLs) \cap revokedURLs = {}
    /\ liveURLs \cup revokedURLs = 1..urlCount

C11_Witness ==
    /\ genPc = "retain"
    /\ emitCount >= 3
    /\ Cardinality(liveURLs) = 3
    /\ revokedURLs # {}

\* C12: a failure while one file is processed does not end the sequence:
\* the generator throws only when a diff request failed.
C12_FileFailureNeverAborts ==
    genPc = "threw" => genError = "diff"

\* Every record of the listing decrypts and is rejected by the filter.
NoEligible(listing) ==
    \A i \in 1..Len(listing) :
        /\ decryptEnteFile(listing[i]).ok
        /\ ~isFileEligibleForCast(decryptEnteFile(listing[i]).file)

\* The for loop over encryptedFiles has started.
InPass == genPc \in {"file", "create", "retain", "pace", "done"}

\* C13: a pass over a listing none of whose records is eligible yields
\* nothing and ends with the generator returning; the listing is not fetched
\* again.
C13_NoEligibleEndsSequence ==
    [][ /\ (InPass /\ NoEligible(encryptedFiles)) =>
              /\ genPc \in {"file", "done"}
              /\ emitted = <<>>
              /\ genError = ""
        /\ (genPc = "file" /\ idx > Len(encryptedFiles)
               /\ NoEligible(encryptedFiles)) =>
              /\ genPc' = "done"
              /\ cycle' = cycle
              /\ diffLog' = <<>>
              /\ emitCount' = emitCount
        /\ genPc # "done" ]_vars

C13_Witness ==
    /\ genPc = "done"
    /\ cycle = 2
    /\ emitCount >= 1
    /\ encryptedFiles # <<>>
    /\ NoEligible(encryptedFiles)

\* C14: a new cycle yields nothing before its listing is fetched, and while
\* no diff request fails and every listing has a record that is eligible and
\* renders, the sequence does not end.
C14_GoodListingsNeverEnd ==
    /\ genPc \in {"fetch", "listed"} => emitted = <<>>
    /\ (listingsGood /\ genError # "diff") => genPc \notin {"done", "threw"}

\* The largest updationTime in the pages before page k, 0 when there is none.
RECURSIVE WatermarkBefore(_)
WatermarkBefore(k) ==
    IF k = 1 THEN 0
    ELSE maxUpdationTime(diffLog[k - 1].diff, WatermarkBefore(k - 1))

PageRecords == UNION {Range(diffLog[k].diff) : k \in 1..Len(diffLog)}

\* C15: when getEncryptedCollectionFiles returns it has made one request per
\* page, each with the largest updationTime seen before as sinceTime, and
\* files holds the non-deleted records of the pages, no deleted record and
\* no file twice.
C15_ListingIsExact ==
    genPc = "listed" =>
        /\ \A k \in 1..Len(diffLog) :
              /\ diffLog[k].sinceTime = WatermarkBefore(k)
              /\ diffLog[k].hasMore <=> k < Len(diffLog)
        /\ Range(files) = {r \in PageRecords : ~r.isDeleted}
        /\ \A i, j \in 1..Len(files) : i # j => files[i].id # files[j].id

\* C16: a diff request that fails makes the generator throw at once; the
\* request is not repeated, nothing of that pass is yielded, and the
\* generator does nothing after it.
C16_DiffFailurePropagates ==
    [][ /\ ( /\ Len(diffLog') = Len(diffLog) + 1
             /\ ~diffLog'[Len(diffLog')].ok )
           => ( /\ genPc' = "threw"
                /\ genError' = "diff"
                /\ emitted' = <<>>
                /\ emitCount' = emitCount
                /\ urlCount' = urlCount )
        /\ \A k \in 1..Len(diffLog) : diffLog[k].ok
        /\ genPc # "threw" ]_vars

C16_Witness ==
    /\ genPc = "threw"
    /\ genError = "diff"
    /\ cycle = 2
    /\ Len(diffLog) = 2
    /\ emitCount >= 1

\* C18: before every yield after the first, the generator waits 10 s minus
\* the time since the previous yield when that time is below 10 s, and does
\* not wait otherwise.
C18_WaitsRemainder ==
    lastPacing.emission >= 2 =>
        lastPacing.waited =
            IF lastPacing.elapsed >= 10000 THEN 0
            ELSE 10000 - lastPacing.elapsed

\* ====================================================== Eligibility claims
\* C17: isFileEligibleForCast is true exactly for an image or live photo of
\* at most 100 MiB whose title has no non-renderable extension.
C17_EligibleExactly ==
    eligPc = "returned" =>
        /\ eligResult <=>
              /\ eligFile.fileType \in {"image", "livePhoto"}
              /\ eligFile.fileSize <= 104857600
              /\ ~isNonWebImageFileExtension(extensionOf(eligFile.title))
        /\ eligFile.fileSize = 150 * 1024 * 1024 => ~eligResult
        /\ eligFile.fileType = "video" => ~eligResult
        /\ ( /\ eligFile.fileType \in {"image", "livePhoto"}
             /\ eligFile.fileSize \in {50 * 1024 * 1024, 104857600}
             /\ eligFile.title = "a.jpg" ) => eligResult
        /\ eligFile.fileSize = 104857601 => ~eligResult

C17_Witness ==
    /\ eligPc = "returned"
    /\ eligFile.fileType = "livePhoto"
    /\ eligFile.fileSize = 104857600
    /\ eligFile.title = "noext"
    /\ eligResult

\* ============================================================ Store claims
\* The value readCastData returned for a key, as a JavaScript value.
ReadValue(text) == [type |-> "string", text |-> text]

\* C20: readCastData returns the two entries as stored when both are there
\* and throws when one is absent; after storeCastData of a payload with both
\* properties it returns the two values of the payload; storeCastData of
\* what is not an object throws and writes nothing.
C20_StoreThenRead ==
    /\ lastRead.status # "none" =>
          IF localStorage["collectionKey"].present
                /\ localStorage["castToken"].present
          THEN /\ lastRead.status = "ok"
               /\ lastRead.collectionKey = localStorage["collectionKey"].text
               /\ lastRead.castToken = localStorage["castToken"].text
          ELSE lastRead.status = "threw"
    /\ ( /\ lastRead.status # "none"
         /\ lastStore.payload.type = "object"
         /\ lastStore.payload.properties["collectionKey"] # Missing
         /\ lastStore.payload.properties["castToken"] # Missing )
       => /\ lastRead.status = "ok"
          /\ ReadValue(lastRead.collectionKey) =
                 lastStore.payload.properties["collectionKey"]
          /\ ReadValue(lastRead.castToken) =
                 lastStore.payload.properties["castToken"]
    /\ lastStore.payload.type \in {"undefined", "null", "string"} =>
          /\ lastStore.threw
          /\ localStorage = storeBefore

\* ============================================== Advertiser claims, continued
\* C21: a request without a collectionID is never refused for a collection
\* mismatch, whether or not the session is bound.
C21_NoCollectionIDForgoesCheck ==
    \A j \in 1..Len(requests) :
        requests[j].collectionID = Undefined =>
            /\ requests[j].outcome # "new collection"
            /\ (requests[j].outcome = "replied" <=> Truthy(requests[j].code))

\* C23: once pairedCollectionID holds a non-empty collectionID, no step
\* changes or clears it.
C23_BindingIsFirstWriterWins ==
    [][ Truthy(pairedCollectionID) =>
            pairedCollectionID' = pairedCollectionID ]_vars

C23_Witness ==
    /\ Len(requests) = 3
    /\ requests[1].collectionID = "A"
    /\ requests[1].outcome = "replied"
    /\ requests[2].collectionID = "A"
    /\ requests[2].code # requests[1].code
    /\ requests[3].collectionID = Undefined
    /\ pairedCollectionID = "A"

LastEmitted == emitCount

\* C22: the URL a step revokes was created and not revoked before, has been
\* yielded, and a later URL has been yielded after it; the URL yielded last
\* is never among the revoked ones.
C22_RevokedOnlyAfterReplaced ==
    [][ /\ revokedURLs' # revokedURLs =>
              \E u \in liveURLs :
                  /\ revokedURLs' = revokedURLs \cup {u}
                  /\ u \notin revokedURLs
                  /\ u < LastEmitted
                  /\ u = Head(previousURLs)
        /\ emitted' # <<>> => emitted'[Len(emitted')].url = emitCount'
        /\ emitCount' \notin revokedURLs'
        /\ liveURLs' \cap revokedURLs' = {}
        /\ \A u \in revokedURLs' : u < emitCount' ]_vars

C22_Witness ==
    /\ Cardinality(revokedURLs) >= 2
    /\ cycle = 2
    /\ genPc = "file"
    /\ emitCount = Cardinality(revokedURLs) + 2

\* The records of the listing that are eligible.
EligibleIn(listing) ==
    {i \in 1..Len(listing) :
        /\ decryptEnteFile(listing[i]).ok
        /\ isFileEligibleForCast(decryptEnteFile(listing[i]).file)}

\* C25: at the end of a pass that created no URL the generator returns, also
\* when the listing had eligible files and also in a later pass; at the end
\* of a pass that created a URL it starts the next pass.
C25_EndsExactlyWhenNothingCreated ==
    [][ /\ (genPc = "file" /\ idx > Len(encryptedFiles)) =>
              IF emitted = <<>>
              THEN /\ genPc' = "done"
                   /\ genError' = ""
                   /\ cycle' = cycle
              ELSE /\ genPc' = "fetch"
                   /\ cycle' = cycle + 1
        /\ genPc' = "done" =>
              /\ emitted' = <<>>
              /\ idx' > Len(encryptedFiles') ]_vars

C25_Witness ==
    /\ genPc = "done"
    /\ cycle = 2
    /\ emitCount >= 1
    /\ emitted = <<>>
    /\ EligibleIn(encryptedFiles) # {}

\* The ids of the records among the first n of the listing that are
\* eligible and whose content is fetched and decoded.
RECURSIVE RenderedIds(_, _)
RenderedIds(listing, n) ==
    IF n = 0 THEN <<>>
    ELSE IF Renders(listing[n])
         THEN Append(RenderedIds(listing, n - 1), listing[n].id)
         ELSE RenderedIds(listing, n - 1)

\* C26: the records of a pass are processed one at a time and in one sweep:
\* the URLs yielded in the pass are, in order, those of the records handled
\* so far that are eligible and render, each once, and content is fetched
\* only for the one record at hand, which is eligible.
C26_OneHandlePerRenderedRecord ==
    (genPc \in {"file", "create", "retain", "pace"}) =>
        /\ idx \in 1..(Len(encryptedFiles) + 1)
        /\ [i \in 1..Len(emitted) |-> emitted[i].id] =
               RenderedIds(encryptedFiles, idx - 1)
        /\ \A i, j \in 1..Len(emitted) :
               i # j => emitted[i].url # emitted[j].url
        /\ genPc \in {"create", "retain", "pace"} =>
               /\ idx <= Len(encryptedFiles)
               /\ file.id = encryptedFiles[idx].id
               /\ file.fileType \in {"image", "livePhoto"}
               /\ file.fileSize <= 104857600
               /\ Len(urls) + (IF genPc = "pace" THEN 1 ELSE 0) <= 1

C26_Witness ==
    /\ genPc = "file"
    /\ Len(encryptedFiles) = 2
    /\ idx = 3
    /\ Len(emitted) = 1
    /\ emitted[1].id = encryptedFiles[2].id
    /\ encryptedFiles[1].id = "f2"

\* C28: the wait before the first yield is 2.5 s minus the time spent up
\* to it, and none when that time is 2.5 s or more; a wait of up to the
\* whole 10 s occurs only before later yields.
C28_FirstWaitAtMostTwoAndAHalfSeconds ==
    /\ lastPacing.emission = 1 =>
          /\ lastPacing.waited <= 2500
          /\ lastPacing.waited =
                 IF lastPacing.elapsed - 7500 < 2500
                 THEN 2500 - (lastPacing.elapsed - 7500)
                 ELSE 0
    /\ lastPacing.waited > 2500 => lastPacing.emission >= 2
    /\ lastPacing.waited <= 10000

C28_Witness ==
    /\ lastPacing.emission = 1
    /\ lastPacing.elapsed = 7500
    /\ lastPacing.waited = 2500
    /\ genPc = "file"
    /\ now = 2500
====
